---------------------------- MODULE Spec2Model ----------------------------
(***************************************************************************)
(* Model of the SupportMix post-classification filter                      *)
(* (src/regionClassifier.py: geneticMap, hmmFilter) and of the             *)
(* configuration reader (src/supportConfig.py: getConfigOptions).          *)
(*                                                                         *)
(* Floating point numbers are modelled as exact rationals <<n, d>> in      *)
(* lowest terms with d > 0; <<0, 0>> stands for a non-finite float         *)
(* (inf or nan), which numpy produces on a division by zero instead of     *)
(* raising.                                                                *)
(***************************************************************************)
EXTENDS Integers, Sequences, FiniteSets, TLC

\* ------------------------------------------------------------- bounds
\* Largest number of rows of a genetic map table.
MaxRows == 3
\* Physical positions (base pairs) range over 1..MaxPos.
MaxPos == 4
\* Tabulated genetic positions (centiMorgans) range over 0..MaxGen.
MaxGen == 2
\* Largest number N of SNP positions handed to hmmFilter.__call__.
MaxN == 4
\* Largest number W of classification windows (rows of admixedClass) in the
\* runs that vary the SNP positions.
MaxW == 3
\* Largest number S of samples (columns of admixedClass) in the runs that
\* vary the raw calls.
MaxS == 2

\* ---------------------------------------------------------- rationals
Abs(x) == IF x < 0 THEN -x ELSE x

RECURSIVE Gcd(_, _)
Gcd(x, y) == IF y = 0 THEN x ELSE Gcd(y, x % y)

\* The rational n/d in lowest terms, d > 0.
R(n, d) ==
    LET g == Gcd(Abs(n), Abs(d))
        s == IF d < 0 THEN -1 ELSE 1
    IN  <<(s * n) \div g, (s * d) \div g>>

Int2R(k) == <<k, 1>>
NonFinite == <<0, 0>>
IsFinite(x) == x[2] # 0

RAdd(x, y) ==
    LET g == Gcd(x[2], y[2])
    IN  R(x[1] * (y[2] \div g) + y[1] * (x[2] \div g), (x[2] \div g) * y[2])
RNeg(x) == <<-x[1], x[2]>>
RSub(x, y) == RAdd(x, RNeg(y))
RMul(x, y) ==
    LET g1 == Gcd(Abs(x[1]), y[2])
        g2 == Gcd(Abs(y[1]), x[2])
    IN  R((x[1] \div g1) * (y[1] \div g2), (x[2] \div g2) * (y[2] \div g1))
\* Float division: a zero divisor gives inf or nan, never an exception.
RDiv(x, y) == IF y[1] = 0 THEN NonFinite ELSE RMul(x, R(y[2], y[1]))
\* Comparisons over the least common denominator.
RLt(x, y) ==
    LET g == Gcd(x[2], y[2]) IN x[1] * (y[2] \div g) < y[1] * (x[2] \div g)
RLe(x, y) ==
    LET g == Gcd(x[2], y[2]) IN x[1] * (y[2] \div g) <= y[1] * (x[2] \div g)

\* ------------------------------------------------- geneticMap.pos2gm
\* A table is a sequence of rows <<physical position, genetic position>>,
\* the array self.m: row k of the model is m[k-1] of the code.

\* numpy's searchsorted(side='left') for one key: the binary search of
\* npy_binsearch, which is defined (if meaningless) on unsorted arrays too.
\* Returns the 0-based insertion index.
RECURSIVE BinSearchLeft(_, _, _, _)
BinSearchLeft(tbl, key, lo, hi) ==
    IF lo < hi
    THEN LET mid == lo + ((hi - lo) \div 2)
         IN  IF tbl[mid + 1][1] < key
             THEN BinSearchLeft(tbl, key, mid + 1, hi)
             ELSE BinSearchLeft(tbl, key, lo, mid)
    ELSE lo

searchsorted(tbl, key) == BinSearchLeft(tbl, key, 0, Len(tbl))

Returned(v) == [ok |-> TRUE, exc |-> "", val |-> v]
Raised(e) == [ok |-> FALSE, exc |-> e, val |-> NonFinite]

\* The interpolation of line 194 between rows i-1 and i (0-based i).
Interpolate(tbl, i, p) ==
    LET lo == tbl[i]
        hi == tbl[i + 1]
        slope == RDiv(RSub(Int2R(hi[2]), Int2R(lo[2])), Int2R(hi[1] - lo[1]))
    IN  IF IsFinite(slope)
        THEN RAdd(RMul(slope, Int2R(p - lo[1])), Int2R(lo[2]))
        ELSE NonFinite

\* pos2gm without the except clause of lines 195-199: a position above the
\* table raises.
pos2gmNoClampAbove(tbl, p) ==
    IF Len(tbl) = 0
    THEN Raised("IndexError")
    ELSE LET i == searchsorted(tbl, p)
         IN  IF i = Len(tbl)
             THEN Raised("IndexError")
             ELSE IF tbl[i + 1][1] = p \/ i = 0
                  THEN Returned(Int2R(tbl[i + 1][2]))
                  ELSE Returned(Interpolate(tbl, i, p))

\* pos2gm without the interpolation of line 194: the row at the insertion
\* index.
pos2gmNearest(tbl, p) ==
    IF Len(tbl) = 0
    THEN Raised("IndexError")
    ELSE LET i == searchsorted(tbl, p)
         IN  IF i = Len(tbl)
             THEN Returned(Int2R(tbl[Len(tbl)][2]))
             ELSE Returned(Int2R(tbl[i + 1][2]))

\* geneticMap.pos2gm.  An empty file gives a one-dimensional empty array, and
\* m[:,0] on line 187, outside the try, raises IndexError.  Indexing row
\* i = len(m) on line 189 raises IndexError, which the handler turns into the
\* last row's genetic position.
pos2gm(tbl, p) ==
    IF Len(tbl) = 0
    THEN Raised("IndexError")
    ELSE LET i == searchsorted(tbl, p)
         IN  IF i = Len(tbl)
             THEN Returned(Int2R(tbl[Len(tbl)][2]))
             ELSE IF tbl[i + 1][1] = p \/ i = 0
                  THEN Returned(Int2R(tbl[i + 1][2]))
                  ELSE Returned(Interpolate(tbl, i, p))

\* --------------------------------------------------- hmmFilter.__call__
Min(x, y) == IF x < y THEN x ELSE y

RECURSIVE RSum(_)
RSum(seq) == IF Len(seq) = 0 THEN Int2R(0) ELSE RAdd(seq[1], RSum(Tail(seq)))

\* np.mean of a non-empty slice.
Mean(seq) == RDiv(RSum(seq), Int2R(Len(seq)))

\* int(np.ceil(n / float(w))), line 135.
CeilDiv(n, w) == IF n % w = 0 THEN n \div w ELSE (n \div w) + 1

\* np.exp at reduced precision: the value of exp(x), x <= 0, rounded to the
\* nearest quarter (the code rounds it to the nearest double).  The
\* thresholds are ln(7/8), ln(5/8), ln(3/8) and ln(1/8) in units of 1/10000.
\* Window positions are non-decreasing, so no positive argument arises, and
\* none is given a value.
exp(x) ==
    LET AtLeast(t) == t * x[2] <= 10000 * x[1]
    IN  CASE x[1] <= 0 /\ AtLeast(-1335) -> R(1, 1)
          [] x[1] < 0 /\ ~AtLeast(-1335) /\ AtLeast(-4700) -> R(3, 4)
          [] x[1] < 0 /\ ~AtLeast(-4700) /\ AtLeast(-9808) -> R(1, 2)
          [] x[1] < 0 /\ ~AtLeast(-9808) /\ AtLeast(-20794) -> R(1, 4)
          [] x[1] < 0 /\ ~AtLeast(-20794) -> R(0, 1)

\* dM of line 141 and e of line 142.
Retention(newPos, old, gens) ==
    exp(RMul(RDiv(RNeg(RSub(newPos, old)), Int2R(100)), Int2R(gens)))

\* The matrix with (1-e)/nClasses off the diagonal.
TransitionMatrixWrongOff(nc, e) ==
    [j \in 1..nc |-> [k \in 1..nc |->
        IF j = k THEN e ELSE RDiv(RSub(Int2R(1), e), Int2R(nc))]]

\* Lines 144-147: the state transition matrix x for retention e; x[j][k] is
\* the code's x[j-1,k-1].
TransitionMatrix(nc, e) ==
    [j \in 1..nc |-> [k \in 1..nc |->
        IF j = k THEN e ELSE RDiv(RSub(Int2R(1), e), Int2R(nc - 1))]]

\* Lines 152-155: the output (emission) matrix x for success rate s.
EmissionMatrix(nc, s) ==
    [j \in 1..nc |-> [k \in 1..nc |->
        IF j = k THEN s ELSE RDiv(RSub(Int2R(1), s), Int2R(nc - 1))]]

\* Lines 151-157: one emission matrix per entry of successRate.
EmissionMatrices(nc, rates) == [t \in 1..Len(rates) |-> EmissionMatrix(nc, rates[t])]

\* admixedClass[:,k-1]: the raw calls of sample k, one per window.
Column(mat, k) == [t \in 1..Len(mat) |-> mat[t][k]]

\* ------------------------------------------------- hmm.forward_backward
\* The hmm module is not part of the sources; forward_backward is the
\* normalised forward-backward algorithm of a discrete HMM with a uniform
\* initial belief.  a[1], built against the origin, spreads the initial
\* belief; a[t+1] is the transition from window t to window t+1.
\* A vector with every entry evaluated, as an array holds it.
Array(v) == SubSeq(v, 1, Len(v))

Normalize(v) ==
    LET w == Array(v)
        total == RSum(w)
    IN  Array([k \in 1..Len(w) |-> RDiv(w[k], total)])

Uniform(nc) == [k \in 1..nc |-> R(1, nc)]

\* prev * A, then weighted by the emission of the observed label o (0-based).
ForwardStep(prev, A, B, o) ==
    Normalize([k \in 1..Len(prev) |->
        RMul(B[k][o + 1], RSum([j \in 1..Len(prev) |-> RMul(prev[j], A[j][k])]))])

BackwardStep(next, A, B, o) ==
    Normalize([k \in 1..Len(next) |->
        RSum([j \in 1..Len(next) |-> RMul(RMul(A[k][j], B[j][o + 1]), next[j])])])

RECURSIVE Alpha(_, _, _, _)
Alpha(ta, tb, obs, t) ==
    ForwardStep(IF t = 1 THEN Uniform(Len(tb[1])) ELSE Alpha(ta, tb, obs, t - 1),
                ta[t], tb[t], obs[t])

RECURSIVE Beta(_, _, _, _)
Beta(ta, tb, obs, t) ==
    IF t = Len(obs)
    THEN [k \in 1..Len(tb[1]) |-> Int2R(1)]
    ELSE BackwardStep(Beta(ta, tb, obs, t + 1), ta[t + 1], tb[t + 1], obs[t + 1])

Posterior(ta, tb, obs) ==
    [t \in 1..Len(obs) |->
        LET al == Alpha(ta, tb, obs, t)
            be == Beta(ta, tb, obs, t)
        IN  Normalize([k \in 1..Len(al) |-> RMul(al[k], be[k])])]

\* forward_backward refuses matrix sequences whose length is not that of the
\* observation sequence; otherwise it leaves the posteriors in model.pstate.
forward_backward(ta, tb, obs) ==
    IF Len(ta) # Len(obs) \/ Len(tb) # Len(obs)
    THEN [ok |-> FALSE, exc |-> "NumericError", pstate |-> <<>>]
    ELSE [ok |-> TRUE, exc |-> "", pstate |-> Posterior(ta, tb, obs)]

\* ------------------------------------------------ pstate.argsort(1)[:,-1]
\* numpy's default sort of a row of at most 16 entries is an insertion sort:
\* an index moves left only past strictly greater values, so equal values
\* keep their index order.  Indices are 0-based.
RECURSIVE InsertIdx(_, _, _)
InsertIdx(row, sorted, k) ==
    IF Len(sorted) > 0 /\ RLt(row[k + 1], row[sorted[Len(sorted)] + 1])
    THEN Append(InsertIdx(row, SubSeq(sorted, 1, Len(sorted) - 1), k),
                sorted[Len(sorted)])
    ELSE Append(sorted, k)

RECURSIVE ArgSortUpTo(_, _)
ArgSortUpTo(row, n) ==
    IF n = 0 THEN <<>> ELSE InsertIdx(row, ArgSortUpTo(row, n - 1), n - 1)

argsort(row) == ArgSortUpTo(row, Len(row))

\* np.argmax: the first index holding the maximum.
ArgMaxFirst(tbl) ==
    [t \in 1..Len(tbl) |->
        CHOOSE k \in 0..(Len(tbl[t]) - 1) :
            /\ \A j \in 0..(Len(tbl[t]) - 1) : RLe(tbl[t][j + 1], tbl[t][k + 1])
            /\ \A j \in 0..(k - 1) : RLt(tbl[t][j + 1], tbl[t][k + 1])]

\* Line 164: maxIdx, the last index of each row's argsort.
MaxIdx(tbl) == [t \in 1..Len(tbl) |-> argsort(tbl[t])[Len(tbl[t])]]

\* The reference position left where it was.
OldPosKept(old, newPos) == old

\* Line 143: the reference position for the next bin.
OldPosAfter(old, newPos) == newPos

\* The column of the sample after k.
ColumnOfNextSample(mat, k) == Column(mat, (k % Len(mat[1])) + 1)

\* Line 163 hands sample k's own column to forward_backward.
ObservationOf(mat, k) == Column(mat, k)

\* ----------------------------------------------------------- the state
VARIABLES
    m,            \* geneticMap.m: the table read from the genetic map file
    pos,          \* the argument of the pending pos2gm call
    gmpc,         \* "call" before pos2gm runs, "done" after
    gmOut,        \* what pos2gm returned or raised
    snpLocations, \* argument: the physical positions of the N SNPs
    successRate,  \* argument: the classifier's success rate per window
    admixedClass, \* argument: the W x S matrix of raw calls
    nGens,        \* hmmFilter.nGens
    nClasses,     \* hmmFilter.nClasses
    mapLocations, \* line 134
    win_size,     \* line 135
    i,            \* the loop variable of line 139
    oldPos,       \* line 138
    a,            \* the transition matrices built so far
    b,            \* the emission matrices
    pstate,       \* model.pstate: the posteriors forward_backward left
    owner,        \* the sample whose column forward_backward ran on last
    tpc,          \* per sample: "fb" (line 163 next), "read" (line 164), "done"
    readFrom,     \* per sample: owner when the sample read model.pstate
    results,      \* per sample: maxIdx as appended on line 165
    out,          \* the returned matrix, np.array(results).T
    pc,           \* "idle", "start", "trans", "infer", "done" or "error"
    err,          \* the exception that ended the call
    config,       \* the parsed configuration file
    fs,           \* the paths that exist in the file system
    cfgpc,        \* "idle", "call", "returned" or "raised"
    cfgOut        \* what getConfigOptions returned or raised

gmVars == <<pos, gmpc, gmOut>>
cfgVars == <<config, fs, cfgpc, cfgOut>>
inputs == <<snpLocations, successRate, admixedClass, nGens, nClasses>>
buildVars == <<mapLocations, win_size, i, oldPos, a, b>>
inferVars == <<pstate, owner, tpc, readFrom, results, out>>
filterVars == <<inputs, buildVars, inferVars, pc, err>>
vars == <<m, gmVars, filterVars, cfgVars>>

N == Len(snpLocations)
W == Len(admixedClass)
S == Len(admixedClass[1])

\* ------------------------------------------ specification of a lookup
Entries == (1..MaxPos) \X (0..MaxGen)

\* The genetic positions of a map file are cumulative: non-decreasing.
GenMonotone(tbl) == \A k \in 1..(Len(tbl) - 1) : tbl[k][2] <= tbl[k + 1][2]

\* Every file content: empty, well-formed, or with positions out of order.
GMTables == {t \in UNION {[1..n -> Entries] : n \in 0..MaxRows} : GenMonotone(t)}

StrictlyIncreasing(tbl) == \A k \in 1..(Len(tbl) - 1) : tbl[k][1] < tbl[k + 1][1]

\* No configuration is being read.
CfgIdle ==
    /\ config = <<>> /\ fs = {} /\ cfgpc = "idle" /\ cfgOut = <<>>

\* The state of a filter no call is running on.
FilterFresh ==
    /\ mapLocations = <<>> /\ win_size = 0 /\ i = 0 /\ oldPos = Int2R(0)
    /\ a = <<>> /\ b = <<>>
    /\ pstate = <<>> /\ owner = 0 /\ tpc = <<>> /\ readFrom = <<>>
    /\ results = <<>> /\ out = <<>>
    /\ err = ""

InitGM ==
    /\ m \in GMTables
    /\ pos \in 0..(MaxPos + 1)
    /\ gmpc = "call"
    /\ gmOut = Raised("")
    /\ snpLocations = <<>> /\ successRate = <<>> /\ admixedClass = <<>>
    /\ nGens = 0 /\ nClasses = 0
    /\ FilterFresh
    /\ pc = "idle"
    /\ CfgIdle

Lookup ==
    /\ gmpc = "call"
    /\ gmOut' = pos2gm(m, pos)
    /\ gmpc' = "done"
    /\ UNCHANGED <<m, pos, filterVars, cfgVars>>

NextGM == Lookup

SpecGM == InitGM /\ [][NextGM]_vars

\* ------------------------------------ specification of hmmFilter.__call__
\* Two genetic maps of a chromosome arm: one with windows tens of
\* centiMorgans apart, one nearly flat (every retention rounds to 1).
CoarseMap == <<<<1, 0>>, <<3, 10>>, <<5, 30>>>>
FlatMap == <<<<1, 0>>, <<5, 1>>>>
FilterMaps == {CoarseMap, FlatMap}

\* 6.0 is the default of supportConfig.py, 10 the module's self-test value.
Generations == {6, 10}
ClassCounts == {2, 3}
Rates == {R(1, 2), R(3, 4)}
\* The self-test's raw calls are 0 and 1, with three classes.
Labels == {0, 1}

\* Strictly increasing sequences of at most MaxN positions in 0..MaxPos+1.
SnpSequences ==
    {q \in UNION {[1..n -> 0..(MaxPos + 1)] : n \in 0..MaxN} :
        \A k \in 1..(Len(q) - 1) : q[k] < q[k + 1]}

\* 0 ... 0 1 ... 1, the shape of the self-test's single sample.
SplitColumn(w) == [t \in 1..w |-> <<IF 2 * t <= w THEN 0 ELSE 1>>]

\* One rate for every window, as in the self-test, or rates that alternate.
RateVectors(w) ==
    {[t \in 1..w |-> r] : r \in Rates}
        \cup {[t \in 1..w |-> IF t % 2 = 1 THEN R(3, 4) ELSE R(1, 2)]}

\* Runs that vary the SNP positions, the window count and the rates.
InitBuild ==
    /\ m = CoarseMap
    /\ snpLocations \in SnpSequences
    /\ \E w \in 1..MaxW :
          /\ admixedClass = SplitColumn(w)
          /\ successRate \in RateVectors(w)
    /\ nGens \in Generations

\* The shapes W x S of the raw call matrices that are enumerated in full: one
\* or two windows, at most four calls.
InferShapes == {sh \in {1, 2} \X (1..MaxS) : sh[1] * sh[2] <= 4}

\* Runs that vary the raw calls, with one SNP per window as in the self-test.
InitInfer ==
    /\ m \in FilterMaps
    /\ \E w \in {1, 2}, s \in 1..MaxS :
          /\ <<w, s>> \in InferShapes
          /\ snpLocations = [k \in 1..w |-> k]
          /\ admixedClass \in [1..w -> [1..s -> Labels]]
          /\ \E r \in Rates : successRate = [t \in 1..w |-> r]
    /\ nGens = 6

Init ==
    /\ nClasses \in ClassCounts
    /\ InitBuild \/ InitInfer
    /\ FilterFresh
    /\ pc = "start"
    /\ pos = 0 /\ gmpc = "idle" /\ gmOut = Raised("")
    /\ CfgIdle

\* Lines 134-135: map(self.gm.pos2gm, snpLocations) and win_size.
MapLocations ==
    /\ pc = "start"
    /\ LET looked == [k \in 1..N |-> pos2gm(m, snpLocations[k])]
       IN  IF \E k \in 1..N : ~looked[k].ok
           THEN /\ pc' = "error"
                /\ err' = "IndexError"
                /\ UNCHANGED <<mapLocations, win_size>>
           ELSE /\ mapLocations' = [k \in 1..N |-> looked[k].val]
                /\ win_size' = CeilDiv(N, W)
                /\ pc' = "trans"
                /\ err' = ""
    /\ UNCHANGED <<m, gmVars, cfgVars, inputs, i, oldPos, a, b, inferVars>>

\* Line 139: range(0, 0, 0) raises ValueError when there is no SNP.
RangeStepZero ==
    /\ pc = "trans"
    /\ win_size = 0
    /\ pc' = "error"
    /\ err' = "ValueError"
    /\ UNCHANGED <<m, gmVars, cfgVars, inputs, buildVars, inferVars>>

\* Lines 139-148: one iteration of the loop over the bins.
TransitionStep ==
    /\ pc = "trans"
    /\ win_size > 0
    /\ i < N
    /\ LET newPos == Mean(SubSeq(mapLocations, i + 1, Min(i + win_size, N)))
       IN  /\ a' = Append(a, TransitionMatrix(nClasses, Retention(newPos, oldPos, nGens)))
           /\ oldPos' = OldPosAfter(oldPos, newPos)
    /\ i' = i + win_size
    /\ UNCHANGED <<m, gmVars, cfgVars, inputs, mapLocations, win_size, b, inferVars, pc, err>>

\* Lines 150-158: the loop is over; the emission matrices and the model.
BuildEmissions ==
    /\ pc = "trans"
    /\ win_size > 0
    /\ i >= N
    /\ b' = EmissionMatrices(nClasses, successRate)
    /\ tpc' = [k \in 1..S |-> "fb"]
    /\ readFrom' = [k \in 1..S |-> 0]
    /\ results' = [k \in 1..S |-> <<>>]
    /\ pc' = "infer"
    /\ UNCHANGED <<m, gmVars, cfgVars, inputs, mapLocations, win_size, i, oldPos, a,
                   pstate, owner, out, err>>

\* Line 163: model.forward_backward(admixedClass[:,k-1]).
ForwardBackward(k) ==
    /\ pc = "infer"
    /\ tpc[k] = "fb"
    /\ LET r == forward_backward(a, b, ObservationOf(admixedClass, k))
       IN  IF r.ok
           THEN /\ pstate' = r.pstate
                /\ owner' = k
                /\ tpc' = [tpc EXCEPT ![k] = "read"]
                /\ UNCHANGED <<pc, err>>
           ELSE /\ pc' = "error"
                /\ err' = r.exc
                /\ UNCHANGED <<pstate, owner, tpc>>
    /\ UNCHANGED <<m, gmVars, cfgVars, inputs, buildVars, readFrom, results, out>>

\* Lines 164-165: maxIdx from model.pstate, appended to results.
ReadPosterior(k) ==
    /\ pc = "infer"
    /\ tpc[k] = "read"
    /\ results' = [results EXCEPT ![k] = MaxIdx(pstate)]
    /\ readFrom' = [readFrom EXCEPT ![k] = owner]
    /\ tpc' = [tpc EXCEPT ![k] = "done"]
    /\ UNCHANGED <<m, gmVars, cfgVars, inputs, buildVars, pstate, owner, out, pc, err>>

\* Line 166: np.array(results).T, one row per window.
Return ==
    /\ pc = "infer"
    /\ \A k \in 1..S : tpc[k] = "done"
    /\ out' = [t \in 1..Len(results[1]) |-> [k \in 1..S |-> results[k][t]]]
    /\ pc' = "done"
    /\ UNCHANGED <<m, gmVars, cfgVars, inputs, buildVars, pstate, owner, tpc, readFrom,
                   results, err>>

\* The loop of line 162 takes the samples in order, one at a time.
LoopForwardBackward ==
    /\ pc = "infer"
    /\ \E k \in 1..S : (\A j \in 1..(k - 1) : tpc[j] = "done") /\ ForwardBackward(k)

LoopReadPosterior == \E k \in 1..S : ReadPosterior(k)

Next ==
    \/ MapLocations
    \/ RangeStepZero
    \/ TransitionStep
    \/ BuildEmissions
    \/ LoopForwardBackward
    \/ LoopReadPosterior
    \/ Return

Spec == Init /\ [][Next]_vars

\* The per-sample inferences as independent tasks: each runs line 163 and
\* then lines 164-165 on the one model object, in any interleaving, and the
\* results are joined once all are done.
TaskForwardBackward == \E k \in 1..S : ForwardBackward(k)

TaskReadPosterior == \E k \in 1..S : ReadPosterior(k)

NextPar ==
    \/ MapLocations
    \/ RangeStepZero
    \/ TransitionStep
    \/ BuildEmissions
    \/ TaskForwardBackward
    \/ TaskReadPosterior
    \/ Return

SpecPar == Init /\ [][NextPar]_vars

\* ------------------------------- specification of getConfigOptions
\* A path is the sequence of its components, "/" first when it is absolute.
\* os.path.join keeps an absolute second argument as it is.
join(base, f) == IF Len(f) > 0 /\ f[1] = "/" THEN f ELSE base \o f

exists(p) == p \in fs

\* The configuration, as ConfigParser holds it after config.read:
\*   parameters    the options of [parameters] (none: no such section)
\*   dataLocation  [data location]: the section and its baseDataDir
\*   input         [input]: the section and its items in file order
\*   plot          [plot options]: the section and the names of its options
NoDataLocation == [section |-> FALSE, hasDir |-> FALSE, dir |-> <<>>]
DataLocations ==
    {NoDataLocation,
     [section |-> TRUE, hasDir |-> FALSE, dir |-> <<>>],
     [section |-> TRUE, hasDir |-> TRUE, dir |-> <<"data">>]}

AncestryNames == {<<"anc.txt">>, <<"/", "ref", "anc.txt">>}

Parameters ==
    UNION {
        {[o \in d |->
            CASE o = "chromosome" -> 22
              [] o = "window" -> 50
              [] o = "generations" -> 10
              [] o = "saveFile" -> "run1"
              [] o = "ancestryFile" -> anc] : anc \in AncestryNames}
        : d \in {{}, {"chromosome", "window"}, {"ancestryFile"},
                 {"generations", "saveFile", "ancestryFile"}}}

Inputs ==
    {[section |-> FALSE, items |-> <<>>],
     [section |-> TRUE, items |-> <<>>],
     [section |-> TRUE, items |-> <<<<"ceu", <<"ceu.txt">>>>>>],
     [section |-> TRUE, items |-> <<<<"admixed", <<"adm.txt">>>>>>],
     [section |-> TRUE, items |-> <<<<"admixed", <<"adm.txt">>>>, <<"ceu", <<"ceu.txt">>>>>>]}

Plots ==
    {[section |-> FALSE, opts |-> {}]}
        \cup {[section |-> TRUE, opts |-> o] : o \in {{}, {"plot"}, {"RGB"}, {"plot", "labels"}}}

Paths ==
    {<<"anc.txt">>, <<"data", "anc.txt">>, <<"/", "ref", "anc.txt">>,
     <<"ceu.txt">>, <<"data", "ceu.txt">>, <<"adm.txt">>, <<"data", "adm.txt">>}

InitCfg ==
    /\ config \in [parameters : Parameters, dataLocation : DataLocations,
                   input : Inputs, plot : Plots]
    /\ fs \in SUBSET Paths
    /\ cfgpc = "call"
    /\ cfgOut = <<>>
    /\ m = <<>> /\ pos = 0 /\ gmpc = "idle" /\ gmOut = Raised("")
    /\ snpLocations = <<>> /\ successRate = <<>> /\ admixedClass = <<>>
    /\ nGens = 0 /\ nClasses = 0
    /\ FilterFresh
    /\ pc = "idle"

has_option(c, o) == o \in DOMAIN c.parameters

\* Lines 44-62: the numeric parameters and the save file, with defaults.
Defaults(c) ==
    [chrom |-> IF has_option(c, "chromosome") THEN c.parameters["chromosome"] ELSE 0,
     win |-> IF has_option(c, "window") THEN c.parameters["window"] ELSE 100,
     nGens |-> IF has_option(c, "generations") THEN c.parameters["generations"] ELSE 6,
     saveFile |-> IF has_option(c, "saveFile")
                  THEN c.parameters["saveFile"] ELSE "outSupportMix"]

\* Lines 65-68.
BaseDataDir(c) ==
    IF c.dataLocation.section
    THEN [set |-> TRUE, dir |-> c.dataLocation.dir]
    ELSE [set |-> FALSE, dir |-> <<>>]

\* Lines 79-88: the ancestry file.  kind is "set" when configData gets
\* 'correctFile', "raise" on line 88 and "unset" when neither branch runs.
CorrectFile(c, files) ==
    LET anc == c.parameters["ancestryFile"]
        base == BaseDataDir(c)
    IN  IF anc \in files
        THEN [kind |-> "set", file |-> anc]
        ELSE IF base.set
             THEN IF join(base.dir, anc) \in files
                  THEN [kind |-> "set", file |-> join(base.dir, anc)]
                  ELSE [kind |-> "raise", file |-> <<>>]
             ELSE [kind |-> "unset", file |-> <<>>]

\* Lines 94-98: the file of an [input] item.
FileItem(c, item) ==
    IF BaseDataDir(c).set THEN join(BaseDataDir(c).dir, item[2]) ELSE item[2]

\* Lines 92-109: the ancestral files in file order, then the admixed file.
RECURSIVE Ancestral(_, _)
Ancestral(c, items) ==
    IF Len(items) = 0
    THEN <<>>
    ELSE (IF items[1][1] # "admixed" THEN <<FileItem(c, items[1])>> ELSE <<>>)
            \o Ancestral(c, Tail(items))

Admixed(c, items) ==
    LET ks == {k \in 1..Len(items) : items[k][1] = "admixed"}
    IN  IF ks = {}
        THEN <<>>
        ELSE FileItem(c, items[CHOOSE k \in ks : \A j \in ks : j <= k])

\* Lines 115-133: the plot options.
PlotData(c) ==
    IF c.plot.section
    THEN [doPlot |-> IF c.plot.opts \cap {"RGB", "labels"} # {}
                     THEN "True"
                     ELSE IF "plot" \in c.plot.opts THEN "yes" ELSE "None",
          RGB |-> IF "RGB" \in c.plot.opts THEN "255,0,0" ELSE "None",
          labels |-> IF "labels" \in c.plot.opts THEN "ceu,yri" ELSE "None"]
    ELSE [doPlot |-> "", RGB |-> "", labels |-> ""]

CfgRaised(e) == [ok |-> FALSE, exc |-> e]

\* getConfigOptions, lines 39-135.  The exceptions are ConfigParser.Error
\* and its subclasses NoSectionError and NoOptionError.
getConfigOptions(c, files) ==
    IF c.dataLocation.section /\ ~c.dataLocation.hasDir
    THEN CfgRaised("NoOptionError")
    ELSE IF ~has_option(c, "ancestryFile")
    THEN CfgRaised(IF DOMAIN c.parameters = {} THEN "NoSectionError" ELSE "NoOptionError")
    ELSE IF CorrectFile(c, files).kind = "raise"
    THEN CfgRaised("Error")
    ELSE IF ~c.input.section
    THEN CfgRaised("NoSectionError")
    ELSE IF \E k \in 1..Len(c.input.items) : FileItem(c, c.input.items[k]) \notin files
    THEN CfgRaised("Error")
    ELSE IF Admixed(c, c.input.items) = <<>>
    THEN CfgRaised("Error")
    ELSE [ok |-> TRUE,
          exc |-> "",
          keys |-> {"chrom", "win", "nGens", "saveFile", "fileNames"}
                     \cup (IF CorrectFile(c, files).kind = "set" THEN {"correctFile"} ELSE {})
                     \cup (IF c.plot.section THEN {"doPlot", "RGB", "labels"} ELSE {}),
          params |-> Defaults(c),
          correctFile |-> CorrectFile(c, files).file,
          fileNames |-> Append(Ancestral(c, c.input.items), Admixed(c, c.input.items)),
          plot |-> PlotData(c)]

GetConfigOptions ==
    /\ cfgpc = "call"
    /\ cfgOut' = getConfigOptions(config, fs)
    /\ cfgpc' = IF cfgOut'.ok THEN "returned" ELSE "raised"
    /\ UNCHANGED <<m, gmVars, filterVars, config, fs>>

NextCfg == GetConfigOptions

SpecCfg == InitCfg /\ [][NextCfg]_vars

\* ------------------------------------- properties of getConfigOptions
ConfigParserErrors == {"Error", "NoSectionError", "NoOptionError"}

AncestryFile == config.parameters["ancestryFile"]

AncestryCandidates ==
    {AncestryFile}
        \cup (IF config.dataLocation.section /\ config.dataLocation.hasDir
              THEN {join(config.dataLocation.dir, AncestryFile)}
              ELSE {})

\* C10: whenever getConfigOptions returns, configData holds 'correctFile',
\* naming an existing file: the configured ancestry file, or that name under
\* baseDataDir.  If the ancestry file exists at neither place it raises
\* ConfigParser.Error, whether or not [data location] is configured.
C10_FailsFastOnMissingAncestryFile ==
    /\ cfgpc = "returned" =>
          /\ "correctFile" \in cfgOut.keys
          /\ cfgOut.correctFile \in AncestryCandidates
          /\ exists(cfgOut.correctFile)
    /\ (cfgpc \in {"returned", "raised"}
            /\ has_option(config, "ancestryFile")
            /\ \A f \in AncestryCandidates : ~exists(f)) =>
          (cfgpc = "raised" /\ cfgOut.exc \in ConfigParserErrors)

\* --------------------------------------- properties of hmmFilter.__call__
\* The loop over the bins is over.
BinsBuilt == pc \in {"infer", "done"} \/ (pc = "error" /\ err = "NumericError")

\* C1: for N >= W >= 1 the bin size ceil(N / W) satisfies
\* (W-1)*binSize < N <= W*binSize, so that the loop over the bins builds
\* exactly W of them, one per classification window.
C1_ExactlyWBins ==
    (pc # "start" /\ N >= W) =>
        /\ (W - 1) * win_size < N
        /\ N <= W * win_size
        /\ BinsBuilt => Len(a) = W

\* The genetic position of bin t (1-based): the mean over its SNPs; bin 0 is
\* the origin.
BinPosition(t) ==
    IF t = 0
    THEN Int2R(0)
    ELSE Mean([k \in 1..(Min(t * win_size, N) - (t - 1) * win_size) |->
                  mapLocations[(t - 1) * win_size + k]])

\* C5 as stated: W windows give exactly W-1 transition matrices, one per
\* boundary between consecutive windows.
C5_OnePerBoundary == BinsBuilt => Len(a) = W - 1

\* C5 as amended: the loop builds one transition matrix per bin, ceil(N /
\* binSize) of them; the first from the distance between the origin 0 and the
\* first bin, the t-th from the distance between bin t-1 and bin t.
C5_OnePerBin ==
    BinsBuilt =>
        /\ Len(a) = CeilDiv(N, win_size)
        /\ \A t \in 1..Len(a) :
              a[t] = TransitionMatrix(nClasses,
                        Retention(BinPosition(t), BinPosition(t - 1), nGens))

\* Three bins for three windows, the first at a distance from the origin
\* and the last two retentions different.
C5_Witness ==
    /\ BinsBuilt
    /\ Len(a) = 3
    /\ Len(a) = W
    /\ a[1][1][1] # Int2R(1)
    /\ a[2] # a[3]

\* C6: with fewer SNP positions than windows the call fails with a
\* configuration error; it builds no bins or matrices and returns nothing.
C6_FewerSnpsThanWindowsFails ==
    (N < W) =>
        /\ a = <<>> /\ b = <<>>
        /\ pc \in {"start", "trans", "error"}
        /\ pc = "error" => err = "ConfigurationError"

\* Row j of a matrix has d on the diagonal, (1-d)/(nClasses-1) elsewhere, and
\* sums to 1.
RowShape(x, j, d) ==
    /\ x[j][j] = d
    /\ \A k \in 1..nClasses :
          k # j => RMul(x[j][k], Int2R(nClasses - 1)) = RSub(Int2R(1), d)
    /\ RSum([k \in 1..nClasses |-> x[j][k]]) = Int2R(1)

\* C9: every row of every transition matrix has the retention e of its bin on
\* the diagonal and (1-e)/(nClasses-1) elsewhere, every row of every emission
\* matrix has the window's success rate s on the diagonal and
\* (1-s)/(nClasses-1) elsewhere, and every row sums to 1.
C9_RowsStochastic ==
    /\ \A t \in 1..Len(a) : \A j \in 1..nClasses :
          /\ Len(a[t]) = nClasses
          /\ RowShape(a[t], j, Retention(BinPosition(t), BinPosition(t - 1), nGens))
    /\ \A t \in 1..Len(b) : \A j \in 1..nClasses :
          /\ Len(b[t]) = nClasses
          /\ RowShape(b[t], j, successRate[t])

\* Three classes, a retention strictly between 0 and 1, all matrices built.
C9_Witness ==
    /\ nClasses = 3
    /\ Len(a) >= 2
    /\ Len(b) >= 2
    /\ a[2][1][1] \in {R(1, 4), R(1, 2), R(3, 4)}
    /\ a[2][1][2] # a[2][1][1]
    /\ b[1] # b[2]

\* The posteriors of sample k processed alone.
PosteriorAlone(k) == Posterior(a, b, [t \in 1..W |-> admixedClass[t][k]])

IsMax(row, c) == \A j \in 1..Len(row) : RLe(row[j], row[c + 1])
Tied(row) == \E j, k \in 1..Len(row) : j # k /\ IsMax(row, j - 1) /\ IsMax(row, k - 1)

\* The call of a row: a state of maximum posterior; among several, the one
\* of lowest resp. highest index (0-based).
LowestMax(row) ==
    CHOOSE c \in 0..(Len(row) - 1) :
        IsMax(row, c) /\ \A j \in 0..(c - 1) : ~IsMax(row, j)
HighestMax(row) ==
    CHOOSE c \in 0..(Len(row) - 1) :
        IsMax(row, c) /\ \A j \in (c + 1)..(Len(row) - 1) : ~IsMax(row, j)

\* C4 as stated: the call returned for sample k at window t is the state of
\* maximum posterior probability at t, and among several such states the one
\* of lowest index.
C4_MaxPosteriorLowestIndex ==
    pc = "done" =>
        \A k \in 1..S : \A t \in 1..W :
            out[t][k] = LowestMax(PosteriorAlone(k)[t])

\* C4 as amended: the call returned for sample k at window t is a state of
\* maximum posterior probability at t, and among several such states the one
\* of highest index (argsort keeps equal values in index order and the call
\* is its last entry).
C4_MaxPosteriorHighestIndex ==
    pc = "done" =>
        \A k \in 1..S : \A t \in 1..W :
            /\ IsMax(PosteriorAlone(k)[t], out[t][k])
            /\ out[t][k] = HighestMax(PosteriorAlone(k)[t])

\* A returned matrix of three-class calls with a tied window and an untied
\* window whose call is not the highest state.
C4_Witness ==
    /\ pc = "done"
    /\ nClasses = 3
    /\ \E k \in 1..S : \E t \in 1..W : Tied(PosteriorAlone(k)[t])
    /\ \E k \in 1..S : \E u \in 1..W :
          ~Tied(PosteriorAlone(k)[u]) /\ out[u][k] = 0

\* C7 as stated: run as independent tasks in any interleaving and joined at
\* the end, the calls recorded for sample k are those of sample k processed
\* alone.
C7_CallsAsIfAlone ==
    pc = "done" =>
        \A k \in 1..S :
            results[k] = [t \in 1..W |-> HighestMax(PosteriorAlone(k)[t])]

\* C7 as amended: the tasks share model.pstate, and the calls recorded for
\* sample k are those of the sample whose column forward_backward ran on
\* last before sample k read model.pstate; they are sample k's own when no
\* other forward_backward ran in between, as in the loop of the code.
C7_CallsOfLastForwardBackward ==
    \A k \in 1..Len(tpc) :
        tpc[k] = "done" =>
            /\ readFrom[k] \in 1..S
            /\ results[k] =
                  [t \in 1..W |-> HighestMax(PosteriorAlone(readFrom[k])[t])]

\* All tasks joined, one of them having read another sample's posteriors and
\* recorded calls that are not its own.
C7_Witness ==
    /\ pc = "done"
    /\ \E k \in 1..S :
          /\ readFrom[k] # k
          /\ results[k] # [t \in 1..W |-> HighestMax(PosteriorAlone(k)[t])]
    /\ \E k \in 1..S : readFrom[k] = k

\* ------------------------------------------------ properties of pos2gm
First(tbl) == tbl[1]
Last(tbl) == tbl[Len(tbl)]
WellFormed(tbl) == Len(tbl) > 0 /\ StrictlyIncreasing(tbl)

RowBelow(tbl, p) ==
    CHOOSE r \in {tbl[k] : k \in 1..Len(tbl)} :
        /\ r[1] < p
        /\ \A k \in 1..Len(tbl) : tbl[k][1] < p => tbl[k][1] <= r[1]
RowAbove(tbl, p) ==
    CHOOSE r \in {tbl[k] : k \in 1..Len(tbl)} :
        /\ r[1] > p
        /\ \A k \in 1..Len(tbl) : tbl[k][1] > p => tbl[k][1] >= r[1]
Tabulated(tbl, p) == \E k \in 1..Len(tbl) : tbl[k][1] = p
InRange(tbl, p) == First(tbl)[1] <= p /\ p <= Last(tbl)[1]

\* g0 + (g1-g0)/(p1-p0)*(pos-p0)
LinearFormula(r0, r1, p) ==
    RAdd(Int2R(r0[2]),
         RMul(RDiv(Int2R(r1[2] - r0[2]), Int2R(r1[1] - r0[1])), Int2R(p - r0[1])))

\* C3: on a non-empty table with strictly increasing physical positions and
\* a pos within the table's range, pos2gm returns exactly the tabulated
\* genetic position when pos is tabulated, and otherwise the linear
\* interpolation between the rows immediately below and above pos.
C3_ExactOrInterpolated ==
    (gmpc = "done" /\ WellFormed(m) /\ InRange(m, pos)) =>
        IF Tabulated(m, pos)
        THEN \E k \in 1..Len(m) :
                m[k][1] = pos /\ gmOut = Returned(Int2R(m[k][2]))
        ELSE gmOut = Returned(LinearFormula(RowBelow(m, pos), RowAbove(m, pos), pos))

\* An interpolated lookup whose result is not a tabulated value.
C3_Witness ==
    /\ gmpc = "done"
    /\ WellFormed(m)
    /\ InRange(m, pos)
    /\ ~Tabulated(m, pos)
    /\ gmOut.ok
    /\ gmOut.val[2] > 1
    /\ Len(m) = 3

\* IndexError and KeyError are the subclasses of LookupError.
LookupErrors == {"LookupError", "IndexError", "KeyError"}

\* C8: a lookup fails with a LookupError whenever the table is empty or its
\* physical positions are not strictly increasing; it never returns a
\* genetic position computed from such a table.
C8_MalformedTableRaises ==
    (gmpc = "done" /\ ~WellFormed(m)) =>
        (~gmOut.ok /\ gmOut.exc \in LookupErrors)

=============================================================================
